---- MODULE Spec2Model ----
(***************************************************************************)
(* The zero-knowledge proof suite of crypto/paillier: the Paillier-Blum    *)
(* modulus proof (mod_proof.go), the ring-Pedersen parameter proof         *)
(* (param_proof.go) and the no-small-factor proof (factor_proof.go).       *)
(*                                                                         *)
(* Integers are math/big integers.  A *big.Int that may be nil is a value  *)
(* together with a nil mark: every proof record carries the set `nil` of   *)
(* the components whose pointer is nil.  The Fiat-Shamir hashes are a      *)
(* random oracle: a table from the hashed tuple to the value drawn for it, *)
(* so prover and verifier agree exactly when they hash the same tuple.     *)
(***************************************************************************)
EXTENDS Integers, Sequences, FiniteSets, TLC

VARIABLES pc, key, pub, rnd, proof, oracle, res

vars == <<pc, key, pub, rnd, proof, oracle, res>>

(***************************************************************************)
(* Bounds of the model.                                                    *)
(***************************************************************************)
\* PARAM_M is 80 in the source; the model runs the same loops over ScaleM indices.
ScaleM == 2
\* Private keys are the pairs of distinct primes up to MaxPrime.
MaxPrime == 11
\* ModProof is run for the keys whose modulus is at most MaxModulus.
MaxModulus == 77

PARAM_M == ScaleM

Idx == 0 .. (PARAM_M - 1)

None == [none |-> TRUE]

(***************************************************************************)
(* math/big                                                                *)
(***************************************************************************)
Abs(x) == IF x < 0 THEN -x ELSE x

IsPrime(n) == n > 1 /\ \A d \in 2 .. (n - 1) : n % d # 0

RECURSIVE Gcd(_, _)
Gcd(a, b) == IF b = 0 THEN Abs(a) ELSE Gcd(b, a % Abs(b))

\* big.Int.Sqrt: the floor of the square root.
Sqrt(n) == CHOOSE r \in 0 .. n : r * r <= n /\ (r + 1) * (r + 1) > n

RECURSIVE PowNat(_, _, _)
\* x^y mod m for y >= 0, m > 0, by square and multiply.
PowNat(x, y, m) ==
    IF y = 0 THEN 1 % m
    ELSE LET h == PowNat(x, y \div 2, m)
             s == (h * h) % m
         IN  IF y % 2 = 1 THEN (s * (x % m)) % m ELSE s

\* big.Int.ModInverse(g, n): the inverse in [0, n), or no value (nil) when
\* g and n are not relatively prime.
HasInverse(g, n) == Gcd(g, n) = 1
ModInverse(g, n) == IF n = 1 THEN 0 ELSE CHOOSE d \in 1 .. (n - 1) : (g * d) % n = 1

\* big.Int.Exp(x, y, m) for m > 0: x^y mod m in [0, m); a negative y takes the
\* power of the inverse of x (the model calls it with a negative y only for
\* an x that has one).
Exp(x, y, m) ==
    IF y >= 0 THEN PowNat(x, y, m)
    ELSE PowNat(ModInverse(x % m, m), -y, m)

RECURSIVE Jacobi(_, _)
\* big.Jacobi(x, y) for odd y > 0.
Jacobi(x, y) ==
    LET a == x % y
    IN  IF y = 1 THEN 1
        ELSE IF a = 0 THEN 0
        ELSE IF a % 2 = 0
             THEN (IF y % 8 \in {1, 7} THEN 1 ELSE -1) * Jacobi(a \div 2, y)
             ELSE (IF a % 4 = 3 /\ y % 4 = 3 THEN -1 ELSE 1) * Jacobi(y % a, a)

RECURSIVE ExtGcd(_, _)
\* big.Int.GCD(x, y, a, b): <<g, x, y>> with g = a*x + b*y (extended Euclid).
ExtGcd(a, b) ==
    IF b = 0 THEN <<a, 1, 0>>
    ELSE LET r == ExtGcd(b, a % b)
         IN  <<r[1], r[3], r[2] - (a \div b) * r[3]>>

\* big.Int.ModSqrt(x, p) for an odd prime p, j being Jacobi(x, p): nil (the
\* empty sequence) when x is not a square mod p, 0 for x = 0 mod p, else
\* x^((p+1)/4) mod p when p = 3 mod 4 (modSqrt3Mod4Prime) and otherwise some
\* root.
ModSqrtCase(j, x, p) ==
    IF j = -1 THEN <<>>
    ELSE IF j = 0 THEN <<0>>
    ELSE IF p % 4 = 3 THEN <<PowNat(x, (p + 1) \div 4, p)>>
    ELSE <<CHOOSE r \in 1 .. (p - 1) : (r * r) % p = x % p>>

ModSqrt(x, p) == ModSqrtCase(Jacobi(x, p), x, p)

(***************************************************************************)
(* common (ModInt, random, hash)                                           *)
(***************************************************************************)
\* common.GetRandomPositiveInt(lessThan): the values it may return.
GetRandomPositiveInt(lessThan) == 0 .. (lessThan - 1)

\* common.HashToN(N, ...): the values a hash into [0, N) may take.
HashToN(N) == 0 .. (N - 1)

\* The challenge vectors the model draws: every value of [0, N) at any one
\* index while the other indices hold the top of the range.
Challenges(N) ==
    { y \in [Idx -> HashToN(N)] :
        \E i \in Idx : \A j \in Idx \ {i} : y[j] = N - 1 }

(***************************************************************************)
(* Keys                                                                    *)
(***************************************************************************)
MkKey(p, q) == [p |-> p, q |-> q, N |-> p * q, PhiN |-> (p - 1) * (q - 1)]

BlumPrimes == { p \in 3 .. MaxPrime : IsPrime(p) /\ p % 4 = 3 }

\* The private keys key generation produces: N = p*q for distinct primes
\* congruent to 3 mod 4.
PrivateKeys ==
    { MkKey(pq[1], pq[2]) :
        pq \in { x \in BlumPrimes \X BlumPrimes : x[1] # x[2] } }

(***************************************************************************)
(* mod_proof.go                                                            *)
(***************************************************************************)
Panic == [out |-> "panic"]

\* The slice PrimeModSqrt builds from r = ModSqrt(x, p): [] or [r, -r mod p].
RootPair(r, p) == IF r = <<>> THEN <<>> ELSE <<r[1], (-r[1]) % p>>

\* PrimeModSqrt(x, p)
PrimeModSqrt(x, p) == RootPair(ModSqrt(x, p), p)

\* CompModSqrt's combination with the Bezout coefficients exchanged:
\* a*p*rp + b*q*rq mod n.
CrtCombine_Swapped(rps, rqs, g, p, q, n) ==
    [k \in 1 .. (Len(rps) * Len(rqs)) |->
        ( ((((g[2] * p) % n) * rps[((k - 1) \div Len(rqs)) + 1]) % n)
        + ((((g[3] * q) % n) * rqs[((k - 1) % Len(rqs)) + 1]) % n) ) % n]

\* The loops of CompModSqrt over the prime-level roots rps and rqs, with the
\* Bezout coefficients g = <<gcd, a, b>> of p and q: the CRT combinations
\* b*q*rp + a*p*rq mod n, in the order of the nested loops.
CrtCombine(rps, rqs, g, p, q, n) ==
    [k \in 1 .. (Len(rps) * Len(rqs)) |->
        ( ((((g[3] * q) % n) * rps[((k - 1) \div Len(rqs)) + 1]) % n)
        + ((((g[2] * p) % n) * rqs[((k - 1) % Len(rqs)) + 1]) % n) ) % n]

\* CompModSqrt(x, p, q, n)
CompModSqrt(x, p, q, n) ==
    CrtCombine(PrimeModSqrt(x, p), PrimeModSqrt(x, q), ExtGcd(p, q), p, q, n)

RECURSIVE Flatten(_)
Flatten(ss) == IF ss = <<>> THEN <<>> ELSE Head(ss) \o Flatten(Tail(ss))

\* The loop of CompMod4thRt over the square roots: the roots of each, appended.
RootsOfEach(sqroots, p, q, n) ==
    Flatten([k \in 1 .. Len(sqroots) |-> CompModSqrt(sqroots[k], p, q, n)])

\* CompMod4thRt(x, p, q, n): the square roots of the square roots.
CompMod4thRt(x, p, q, n) == RootsOfEach(CompModSqrt(x, p, q, n), p, q, n)

\* The value of DefineXi without the negation for a.
Twist_NoSign(a, b, w, y, N) == (IF b THEN y * w ELSE y) % N

\* The value DefineXi and ModVerify compare x^4 with: (-1)^a * w^b * y mod N.
Twist(a, b, w, y, N) ==
    ((IF a THEN -1 ELSE 1) * (IF b THEN y * w ELSE y)) % N

\* The order in which DefineXi tries (a, b).
TwistOrder == << <<FALSE, FALSE>>, <<FALSE, TRUE>>, <<TRUE, FALSE>>, <<TRUE, TRUE>> >>

RECURSIVE FirstRoot(_, _)
\* The return of DefineXi's loops, roots[k] being the fourth roots found for
\* the k-th (a, b): the first non-empty list's (a, b) and first root, or the
\* panic("no root found") after the loops.
FirstRoot(roots, k) ==
    IF k > Len(roots) THEN Panic
    ELSE IF roots[k] # <<>>
         THEN [out |-> "return", a |-> TwistOrder[k][1], b |-> TwistOrder[k][2],
               x |-> roots[k][1]]
         ELSE FirstRoot(roots, k + 1)

\* DefineXi(w, y_i, p, q, N)
DefineXi(w, y_i, p, q, N) ==
    FirstRoot([k \in 1 .. 4 |->
                  CompMod4thRt(Twist(TwistOrder[k][1], TwistOrder[k][2], w, y_i, N),
                               p, q, N)], 1)

\* ModProof() going on with a zero response where ModInverse returned nil.
ModProofOf_IgnoresNil(w, xi, invertible, z) ==
    IF \E i \in Idx : xi[i].out = "panic" THEN Panic
    ELSE [out |-> "return",
          W |-> w,
          X |-> [i \in Idx |-> xi[i].x],
          A |-> [i \in Idx |-> xi[i].a],
          B |-> [i \in Idx |-> xi[i].b],
          Z |-> z,
          nil |-> {}]

\* The proof ModProof() returns from the DefineXi results xi and the
\* responses z; a panic of DefineXi, or of the Exp on the nil that ModInverse
\* returns when N is not invertible mod phiN, ends it.
ModProofOf(w, xi, invertible, z) ==
    IF \E i \in Idx : xi[i].out = "panic" THEN Panic
    ELSE IF ~invertible THEN Panic
    ELSE [out |-> "return",
          W |-> w,
          X |-> [i \in Idx |-> xi[i].x],
          A |-> [i \in Idx |-> xi[i].a],
          B |-> [i \in Idx |-> xi[i].b],
          Z |-> z,
          nil |-> {}]

\* ModProof() computing the exponent as phiN^-1 mod N instead of N^-1 mod phiN.
ModProof_SwappedInverse(k, w, y) ==
    ModProofOf(w,
               [i \in Idx |-> DefineXi(w, y[i], k.p, k.q, k.N)],
               HasInverse(k.PhiN, k.N),
               [i \in Idx |-> IF HasInverse(k.PhiN, k.N)
                              THEN Exp(y[i], ModInverse(k.PhiN, k.N), k.N)
                              ELSE 0])

\* PrivateKey.ModProof() with the witness w and the challenges y it drew:
\* x_i, a_i, b_i from DefineXi and z_i = y_i^(N^-1 mod phiN) mod N.
ModProof(k, w, y) ==
    ModProofOf(w,
               [i \in Idx |-> DefineXi(w, y[i], k.p, k.q, k.N)],
               HasInverse(k.N, k.PhiN),
               [i \in Idx |-> IF HasInverse(k.N, k.PhiN)
                              THEN Exp(y[i], ModInverse(k.N, k.PhiN), k.N)
                              ELSE 0])

Ok == [out |-> "return", ok |-> TRUE, err |-> <<"nil", 0>>]
Fail(kind, i) == [out |-> "return", ok |-> FALSE, err |-> <<kind, i>>]

RECURSIVE ModVerifyLoop_SkipsZ(_, _, _, _)
\* The loop of ModVerify without the z_i^N = y_i check.
ModVerifyLoop_SkipsZ(pf, N, y, i) ==
    IF i = PARAM_M THEN Ok
    ELSE IF <<"X", i>> \in pf.nil THEN Panic
    ELSE IF Exp(pf.X[i], 4, N) # Twist(pf.A[i], pf.B[i], pf.W, y[i], N)
         THEN Fail("x", i)
    ELSE ModVerifyLoop_SkipsZ(pf, N, y, i + 1)

RECURSIVE ModVerifyLoop(_, _, _, _)
\* The loop of ModVerify from index i on: the first failing check returns.
ModVerifyLoop(pf, N, y, i) ==
    IF i = PARAM_M THEN Ok
    ELSE IF <<"Z", i>> \in pf.nil THEN Panic
    ELSE IF Exp(pf.Z[i], N, N) # y[i] THEN Fail("z", i)
    ELSE IF <<"X", i>> \in pf.nil THEN Panic
    ELSE IF Exp(pf.X[i], 4, N) # Twist(pf.A[i], pf.B[i], pf.W, y[i], N)
         THEN Fail("x", i)
    ELSE ModVerifyLoop(pf, N, y, i + 1)

\* ModVerify without the ProbablyPrime test.
ModVerify_NoPrimeCheck(pf, N, Nnil, y) ==
    IF Nnil THEN Panic
    ELSE IF N % 2 # 1 THEN Fail("even", 0)
    ELSE ModVerifyLoop(pf, N, y, 0)

\* ModProof.ModVerify(N), y being ModChallenge(N, pf.W).
ModVerify(pf, N, Nnil, y) ==
    IF Nnil THEN Panic
    ELSE IF N % 2 # 1 THEN Fail("even", 0)
    ELSE IF IsPrime(N) THEN Fail("prime", 0)
    ELSE ModVerifyLoop(pf, N, y, 0)

(***************************************************************************)
(* The random oracle behind ModChallenge / ParamChallenge / FactorChallenge *)
(***************************************************************************)
NoQueries == [q \in {} |-> 0]

\* The values the hash of tuple q may return: the recorded one, or any value
\* of its range when q was never hashed.
Answers(tbl, q, range) == IF q \in DOMAIN tbl THEN {tbl[q]} ELSE range

Record(tbl, q, v) == [x \in (DOMAIN tbl) \cup {q} |-> IF x = q THEN v ELSE tbl[x]]

(***************************************************************************)
(* ModProof: generation, the tests' tampering and forgery, verification    *)
(***************************************************************************)
NoTamper == <<"none", 0>>

\* The forger's primes of TestModProofVerify_ForgedProof.
ForgedP == 17
ForgedQ == 7
ForgerKey == MkKey(ForgedP, ForgedQ)

ModKeys == { k \in PrivateKeys : k.N <= MaxModulus }

InitMod ==
    /\ pc = "start"
    /\ key \in ModKeys \cup {ForgerKey}
    /\ pub = None
    /\ rnd = None
    /\ proof = None
    /\ oracle = NoQueries
    /\ res = None

\* privateKey.ModProof(): the loop leaves with a w of Jacobi symbol -1.
ModProofGen ==
    /\ pc = "start"
    /\ key \in PrivateKeys
    /\ \E w \in { v \in GetRandomPositiveInt(key.N) : Jacobi(v, key.N) = -1 } :
       \E y \in Challenges(key.N) :
       \E pf \in {ModProof(key, w, y)} :
              /\ rnd' = [w |-> w, y |-> y, tamper |-> NoTamper]
              /\ oracle' = Record(oracle, <<key.N, w>>, y)
              /\ IF pf.out = "panic"
                 THEN pc' = "panic" /\ proof' = None /\ pub' = None
                 ELSE /\ pc' = "proved"
                      /\ proof' = pf
                      /\ pub' = [N |-> key.N, nil |-> {}]
    /\ UNCHANGED <<key, res>>

\* TestModProofVerify_ForgedProof: w = 0, a_i = b_i = true, x_i = 0 and
\* z_i = y_i^(N^-1 mod phiN) mod N for a modulus with a prime that is 1 mod 4.
ForgedProof ==
    /\ pc = "start"
    /\ key = ForgerKey
    /\ \E y \in Challenges(key.N) :
          /\ rnd' = [w |-> 0, y |-> y, tamper |-> NoTamper]
          /\ oracle' = Record(oracle, <<key.N, 0>>, y)
          /\ proof' = [out |-> "return",
                       W |-> 0,
                       X |-> [i \in Idx |-> 0],
                       A |-> [i \in Idx |-> TRUE],
                       B |-> [i \in Idx |-> TRUE],
                       Z |-> [i \in Idx |-> Exp(y[i], ModInverse(key.N, key.PhiN), key.N)],
                       nil |-> {}]
    /\ pub' = [N |-> key.N, nil |-> {}]
    /\ pc' = "forged"
    /\ UNCHANGED <<key, res>>

\* TestModProofVerifyFail: proof.Z[i] is decremented in place.
TamperZ ==
    /\ pc = "proved"
    /\ \E i \in Idx :
          /\ proof' = [proof EXCEPT !.Z[i] = @ - 1]
          /\ rnd' = [rnd EXCEPT !.tamper = <<"subZ", i>>]
    /\ pc' = "tampered"
    /\ UNCHANGED <<key, pub, oracle, res>>

\* proof.ModVerify(N): ModChallenge hashes (N, W) unless N is nil, even or
\* prime, which return before it.
ModVerifyStep ==
    /\ pc \in {"proved", "tampered", "forged"}
    /\ LET Nnil == "N" \in pub.nil
           early == Nnil \/ pub.N % 2 # 1 \/ IsPrime(pub.N)
           q == <<pub.N, proof.W>>
       IN  \E y \in (IF early THEN {rnd.y} ELSE Answers(oracle, q, Challenges(pub.N))) :
              /\ res' = ModVerify(proof, pub.N, Nnil, y)
              /\ oracle' = IF early THEN oracle ELSE Record(oracle, q, y)
    /\ pc' = "verified"
    /\ UNCHANGED <<key, pub, rnd, proof>>

NextMod == ModProofGen \/ ForgedProof \/ TamperZ \/ ModVerifyStep

SpecMod == InitMod /\ [][NextMod]_vars

(***************************************************************************)
(* ModVerify on a message that did not come from ModProof(): the proof and *)
(* the modulus a sender may put on the wire, one change away from a proof  *)
(* ModProof() (or the forger) built.                                       *)
(***************************************************************************)
\* The adversarial runs start from the keys up to this modulus.
MaxAdvModulus == 33

\* Moduli other than the prover's N: an even one, the primes, and the square
\* of the smaller prime (odd, composite, not a Blum integer).
OtherModuli(k) ==
    LET s == IF k.p < k.q THEN k.p ELSE k.q
    IN  {2 * k.N, k.p, k.q, s * s}

InitModAdv ==
    /\ InitMod
    /\ key.N <= MaxAdvModulus \/ key = ForgerKey

TamperField ==
    /\ pc \in {"proved", "forged"}
    /\ \E i \in Idx :
          \/ /\ proof' = [proof EXCEPT !.X[i] = pub.N - @]
             /\ rnd' = [rnd EXCEPT !.tamper = <<"negX", i>>]
          \/ /\ proof' = [proof EXCEPT !.X[i] = @ + 1]
             /\ rnd' = [rnd EXCEPT !.tamper = <<"addX", i>>]
          \/ /\ proof' = [proof EXCEPT !.Z[i] = @ + pub.N]
             /\ rnd' = [rnd EXCEPT !.tamper = <<"addNZ", i>>]
          \/ /\ proof' = [proof EXCEPT !.A[i] = ~@]
             /\ rnd' = [rnd EXCEPT !.tamper = <<"flipA", i>>]
          \/ /\ proof' = [proof EXCEPT !.B[i] = ~@]
             /\ rnd' = [rnd EXCEPT !.tamper = <<"flipB", i>>]
    /\ pc' = "tampered"
    /\ UNCHANGED <<key, pub, oracle, res>>

\* A component of the proof, or the modulus argument, is a nil pointer.
TamperNil ==
    /\ pc \in {"proved", "forged"}
    /\ \/ \E i \in Idx, f \in {"X", "Z"} :
             /\ proof' = [proof EXCEPT !.nil = @ \cup {<<f, i>>}]
             /\ rnd' = [rnd EXCEPT !.tamper = <<"nil" \o f, i>>]
             /\ pub' = pub
       \/ /\ pub' = [pub EXCEPT !.nil = @ \cup {"N"}]
          /\ rnd' = [rnd EXCEPT !.tamper = <<"nilN", 0>>]
          /\ proof' = proof
    /\ pc' = "tampered"
    /\ UNCHANGED <<key, oracle, res>>

\* The verifier is handed another modulus than the prover's.
TamperModulus ==
    /\ pc \in {"proved", "forged"}
    /\ \E n \in OtherModuli(key) :
          /\ pub' = [pub EXCEPT !.N = n]
          /\ rnd' = [rnd EXCEPT !.tamper = <<"setN", n>>]
    /\ pc' = "tampered"
    /\ UNCHANGED <<key, proof, oracle, res>>

NextModAdv == NextMod \/ TamperField \/ TamperNil \/ TamperModulus

SpecModAdv == InitModAdv /\ [][NextModAdv]_vars

(***************************************************************************)
(* param_proof.go                                                          *)
(***************************************************************************)
RECURSIVE Pow2(_)
Pow2(n) == IF n = 0 THEN 1 ELSE 2 * Pow2(n - 1)

\* big.Int.Bit(i)
Bit(b, i) == (b \div Pow2(i)) % 2

\* BytesToBits reading the PARAM_M low bits most significant first.
BytesToBits_MsbFirst(b) == [i \in Idx |-> Bit(b, PARAM_M - 1 - i)]

\* BytesToBits(b): the PARAM_M low bits of b, least significant first.
BytesToBits(b) == [i \in Idx |-> Bit(b, i)]

\* common.SHA512_256i(...): the values the digest may take; the model's digest
\* is one bit wider than the PARAM_M bits BytesToBits reads (256 and 80 in
\* the source).
SHA512_256i == 0 .. (Pow2(PARAM_M + 1) - 1)

\* ParamProof that commits with the base s: A_i = s^a_i mod N.
ParamProof_BaseS(k, s, t, lambda, a, b) ==
    [A |-> [i \in Idx |-> Exp(s, a[i], k.N)],
     Z |-> [i \in Idx |->
              ((a[i] % k.PhiN) + ((BytesToBits(b)[i] * lambda) % k.PhiN)) % k.PhiN],
     nil |-> {}]

\* PrivateKey.ParamProof(s, t, lambda) with the a_i it drew and the digest b
\* ParamChallenge hashed: A_i = t^a_i mod N, z_i = a_i + e_i*lambda mod phiN.
ParamProof(k, s, t, lambda, a, b) ==
    [A |-> [i \in Idx |-> Exp(t, a[i], k.N)],
     Z |-> [i \in Idx |->
              ((a[i] % k.PhiN) + ((BytesToBits(b)[i] * lambda) % k.PhiN)) % k.PhiN],
     nil |-> {}]

RECURSIVE ParamVerifyLoop_SwapBases(_, _, _, _, _, _)
\* The loop of ParamVerify with the bases exchanged: s^z_i against A_i * t^e_i.
ParamVerifyLoop_SwapBases(pf, N, s, t, e, i) ==
    IF i = PARAM_M THEN TRUE
    ELSE IF Exp(s, pf.Z[i], N) # (pf.A[i] * Exp(t, e[i], N)) % N THEN FALSE
    ELSE ParamVerifyLoop_SwapBases(pf, N, s, t, e, i + 1)

RECURSIVE ParamVerifyLoop(_, _, _, _, _, _)
\* The loop of ParamVerify from index i on: t^z_i against A_i * s^e_i mod N.
ParamVerifyLoop(pf, N, s, t, e, i) ==
    IF i = PARAM_M THEN TRUE
    ELSE IF Exp(t, pf.Z[i], N) # (pf.A[i] * Exp(s, e[i], N)) % N THEN FALSE
    ELSE ParamVerifyLoop(pf, N, s, t, e, i + 1)

\* common.AnyIsNil over the marks of the nil pointers.
AnyIsNil(names, nilset) == names \cap nilset # {}

ParamFields == { <<f, i>> : f \in {"A", "Z"}, i \in Idx }

\* ParamVerify that does not look for nil responses: the Exp on one panics.
ParamVerify_NoNilZ(pf, N, s, t, argnil, b) ==
    IF AnyIsNil({"N", "s", "t"}, argnil)
       \/ AnyIsNil({ <<"A", i>> : i \in Idx }, pf.nil)
    THEN [out |-> "return", ok |-> FALSE]
    ELSE IF pf.nil # {} THEN Panic
    ELSE [out |-> "return", ok |-> ParamVerifyLoop(pf, N, s, t, BytesToBits(b), 0)]

\* ParamProof.ParamVerify(N, s, t), b being the digest ParamChallenge hashes.
ParamVerify(pf, N, s, t, argnil, b) ==
    IF AnyIsNil({"N", "s", "t"}, argnil) \/ AnyIsNil(ParamFields, pf.nil)
    THEN [out |-> "return", ok |-> FALSE]
    ELSE [out |-> "return", ok |-> ParamVerifyLoop(pf, N, s, t, BytesToBits(b), 0)]

(***************************************************************************)
(* ParamProof: the setups, generation, tampering, verification             *)
(***************************************************************************)
\* ParamProof is run for the keys whose modulus is at most MaxParamModulus.
MaxParamModulus == 21

ParamKeys == { k \in PrivateKeys : k.N <= MaxParamModulus /\ k.p < k.q }

\* common.GetRandomPositiveRelativelyPrimeInt(N)
GetRandomPositiveRelativelyPrimeInt(N) == { r \in 1 .. (N - 1) : Gcd(r, N) = 1 }

\* The vectors of a_i the model draws: every value of the range at any one
\* index while the other indices hold the top of the range.
Nonces(n) ==
    { a \in [Idx -> GetRandomPositiveInt(n)] :
        \E i \in Idx : \A j \in Idx \ {i} : a[j] = n - 1 }

\* prmSetUp of the test ("test": t = r^2, s = t^lambda) and the relation as
\* section 4.4 of the specification words it ("spec": s = r^2, t = s^lambda).
InitParam ==
    /\ pc = "start"
    /\ key \in ParamKeys
    /\ \E r \in GetRandomPositiveRelativelyPrimeInt(key.N),
          lambda \in GetRandomPositiveInt(key.PhiN),
          mode \in {"test", "spec"} :
          LET sq == (r * r) % key.N
              pw == Exp(sq, lambda, key.N)
          IN  /\ pub = [N |-> key.N,
                        s |-> IF mode = "test" THEN pw ELSE sq,
                        t |-> IF mode = "test" THEN sq ELSE pw,
                        nil |-> {}]
              /\ rnd = [lambda |-> lambda, mode |-> mode, tamper |-> NoTamper]
    /\ proof = None
    /\ oracle = NoQueries
    /\ res = None

ParamProofGen ==
    /\ pc = "start"
    /\ \E a \in Nonces(key.PhiN), b \in SHA512_256i :
          \E pf \in {ParamProof(key, pub.s, pub.t, rnd.lambda, a, b)} :
             /\ proof' = pf
             /\ oracle' = Record(oracle, <<pub.N, pub.s, pub.t, pf.A>>, b)
    /\ pc' = "proved"
    /\ UNCHANGED <<key, pub, rnd, res>>

\* TestParamProofVerifyFail sets proof.A[42] to nil; the same for any A[i],
\* Z[i] and for the arguments N, s, t.
ParamTamperNil ==
    /\ pc = "proved"
    /\ \/ \E f \in ParamFields :
             /\ proof' = [proof EXCEPT !.nil = @ \cup {f}]
             /\ rnd' = [rnd EXCEPT !.tamper = <<"nil" \o f[1], f[2]>>]
             /\ pub' = pub
       \/ \E x \in {"N", "s", "t"} :
             /\ pub' = [pub EXCEPT !.nil = @ \cup {x}]
             /\ rnd' = [rnd EXCEPT !.tamper = <<"nil" \o x, 0>>]
             /\ proof' = proof
    /\ pc' = "tampered"
    /\ UNCHANGED <<key, oracle, res>>

\* A response is changed: by one, or by phiN.
ParamTamperZ ==
    /\ pc = "proved"
    /\ \E i \in Idx :
          \/ /\ proof' = [proof EXCEPT !.Z[i] = @ + 1]
             /\ rnd' = [rnd EXCEPT !.tamper = <<"addZ", i>>]
          \/ /\ proof' = [proof EXCEPT !.Z[i] = @ + key.PhiN]
             /\ rnd' = [rnd EXCEPT !.tamper = <<"addPhiZ", i>>]
    /\ pc' = "tampered"
    /\ UNCHANGED <<key, pub, oracle, res>>

\* proof.ParamVerify(N, s, t): ParamChallenge hashes (N, s, t, A) unless a
\* nil was found before.
ParamVerifyStep ==
    /\ pc \in {"proved", "tampered"}
    /\ LET early == pub.nil # {} \/ proof.nil # {}
           q == <<pub.N, pub.s, pub.t, proof.A>>
       IN  \E b \in (IF early THEN {0} ELSE Answers(oracle, q, SHA512_256i)) :
              /\ res' = ParamVerify(proof, pub.N, pub.s, pub.t, pub.nil, b)
              /\ oracle' = IF early THEN oracle ELSE Record(oracle, q, b)
    /\ pc' = "verified"
    /\ UNCHANGED <<key, pub, rnd, proof>>

NextParam == ParamProofGen \/ ParamTamperNil \/ ParamTamperZ \/ ParamVerifyStep

SpecParam == InitParam /\ [][NextParam]_vars

(***************************************************************************)
(* factor_proof.go                                                         *)
(***************************************************************************)
\* PARAM_L is 256 in the source, PARAM_E is 512 = 2 * PARAM_L, and
\* FactorChallenge shifts by 256; the model scales the bit length to ScaleL.
ScaleL == 1

PARAM_L == ScaleL
PARAM_E == 2 * ScaleL

\* common.GetRandomIntIn2PowerMulRange(exp, mul): a value of [0, 2^exp * mul);
\* the model draws the two ends of the range.
GetRandomIntIn2PowerMulRange(exp, mul) == {0, Pow2(exp) * mul - 1}

\* modInt.ExpMulExp(a, x, b, y) = a^x * b^y mod m
ExpMulExp(a, x, b, y, m) == (Exp(a, x, m) * Exp(b, y, m)) % m

\* modInt.MulExp(a, b, e) = a * b^e mod m
MulExp(a, b, e, m) == (a * Exp(b, e, m)) % m

\* common.AddMul(a, e, b) = a + e*b over the integers
AddMul(a, e, b) == a + e * b

\* FactorChallenge: HashToN(2q - 1, ...) - (q - 1) for q = 2^256, any value
\* of [-(q - 1), q - 1].
FactorChallenge == (0 - (Pow2(ScaleL) - 1)) .. (Pow2(ScaleL) - 1)

\* The commitments of FactorProof for the samples r.
FactorCommit(k, N, s, t, r) ==
    [P |-> ExpMulExp(s, k.p, t, r.mu, N),
     Q |-> ExpMulExp(s, k.q, t, r.v, N),
     A |-> ExpMulExp(s, r.a, t, r.x, N),
     B |-> ExpMulExp(s, r.b, t, r.y, N),
     T |-> ExpMulExp(ExpMulExp(s, k.q, t, r.v, N), r.a, t, r.r, N),
     Sigma |-> r.sigma]

\* FactorProof with z2 = b + e*p: the response to q built from p.
FactorProof_Z2FromP(k, c, r, e) ==
    [P |-> c.P, Q |-> c.Q, A |-> c.A, B |-> c.B, T |-> c.T, Sigma |-> c.Sigma,
     Z1 |-> AddMul(r.a, e, k.p),
     Z2 |-> AddMul(r.b, e, k.p),
     W1 |-> AddMul(r.x, e, r.mu),
     W2 |-> AddMul(r.y, e, r.v),
     V  |-> AddMul(r.r, e, r.sigma - r.v * k.p),
     nil |-> {}]

\* PrivateKey.FactorProof(N, s, t): the responses to the challenge e for the
\* commitments c and the samples r; sigmaH = sigma - v*p.
FactorProof(k, c, r, e) ==
    [P |-> c.P, Q |-> c.Q, A |-> c.A, B |-> c.B, T |-> c.T, Sigma |-> c.Sigma,
     Z1 |-> AddMul(r.a, e, k.p),
     Z2 |-> AddMul(r.b, e, k.q),
     W1 |-> AddMul(r.x, e, r.mu),
     W2 |-> AddMul(r.y, e, r.v),
     V  |-> AddMul(r.r, e, r.sigma - r.v * k.p),
     nil |-> {}]

FactorFields == {"P", "Q", "A", "B", "T", "Sigma", "Z1", "Z2", "W1", "W2", "V"}

\* The limit of the range checks: 2^(PARAM_L + PARAM_E) * floor(sqrt(pkN)).
FactorLimit(pkN) == Pow2(PARAM_L + PARAM_E) * Sqrt(pkN)

\* FactorVerify without the range check of Z2.
FactorVerify_NoZ2Range(pf, pkN, N, s, t, argnil, e) ==
    IF AnyIsNil({"pkN", "N", "s", "t"}, argnil) THEN Fail("nilarg", 0)
    ELSE IF AnyIsNil(FactorFields, pf.nil) THEN Fail("nilproof", 0)
    ELSE IF ExpMulExp(s, pf.Z1, t, pf.W1, N) # MulExp(pf.A, pf.P, e, N)
         THEN Fail("eq", 1)
    ELSE IF ExpMulExp(s, pf.Z2, t, pf.W2, N) # MulExp(pf.B, pf.Q, e, N)
         THEN Fail("eq", 2)
    ELSE IF ExpMulExp(pf.Q, pf.Z1, t, pf.V, N)
               # MulExp(pf.T, ExpMulExp(s, pkN, t, pf.Sigma, N), e, N)
         THEN Fail("eq", 3)
    ELSE IF Abs(pf.Z1) > FactorLimit(pkN) THEN Fail("range", 1)
    ELSE Ok

\* FactorProof.FactorVerify(pkN, N, s, t), e being FactorChallenge(...).
FactorVerify(pf, pkN, N, s, t, argnil, e) ==
    IF AnyIsNil({"pkN", "N", "s", "t"}, argnil) THEN Fail("nilarg", 0)
    ELSE IF AnyIsNil(FactorFields, pf.nil) THEN Fail("nilproof", 0)
    ELSE IF ExpMulExp(s, pf.Z1, t, pf.W1, N) # MulExp(pf.A, pf.P, e, N)
         THEN Fail("eq", 1)
    ELSE IF ExpMulExp(s, pf.Z2, t, pf.W2, N) # MulExp(pf.B, pf.Q, e, N)
         THEN Fail("eq", 2)
    ELSE IF ExpMulExp(pf.Q, pf.Z1, t, pf.V, N)
               # MulExp(pf.T, ExpMulExp(s, pkN, t, pf.Sigma, N), e, N)
         THEN Fail("eq", 3)
    ELSE IF Abs(pf.Z1) > FactorLimit(pkN) THEN Fail("range", 1)
    ELSE IF Abs(pf.Z2) > FactorLimit(pkN) THEN Fail("range", 2)
    ELSE Ok

(***************************************************************************)
(* FactorProof: the setups, generation, tampering, verification            *)
(***************************************************************************)
\* The prover's key and the ring-Pedersen parameters (N, s, t) of another
\* party: t a square of a unit and s a power of t, N another modulus than
\* the prover's.
InitFactor ==
    /\ pc = "start"
    /\ key \in { k \in PrivateKeys : k.N <= MaxAdvModulus }
    /\ \E ring \in { k \in ParamKeys : k.N # key.N } :
       \E f \in GetRandomPositiveRelativelyPrimeInt(ring.N),
          lambda \in GetRandomPositiveInt(ring.PhiN) :
          /\ pub = [pkN |-> key.N,
                    N |-> ring.N,
                    t |-> (f * f) % ring.N,
                    s |-> Exp((f * f) % ring.N, lambda, ring.N),
                    nil |-> {}]
          /\ rnd = [ringPhiN |-> ring.PhiN, tamper |-> NoTamper]
    /\ proof = None
    /\ oracle = NoQueries
    /\ res = None

FactorProofGen ==
    /\ pc = "start"
    /\ \E a \in GetRandomIntIn2PowerMulRange(PARAM_L + PARAM_E, Sqrt(key.N)),
          b \in GetRandomIntIn2PowerMulRange(PARAM_L + PARAM_E, Sqrt(key.N)),
          mu \in GetRandomIntIn2PowerMulRange(PARAM_L, pub.N),
          v \in GetRandomIntIn2PowerMulRange(PARAM_L, pub.N),
          sigma \in GetRandomIntIn2PowerMulRange(PARAM_L, key.N * pub.N),
          r \in GetRandomIntIn2PowerMulRange(PARAM_L + PARAM_E, key.N * pub.N),
          x \in GetRandomIntIn2PowerMulRange(PARAM_L + PARAM_E, pub.N),
          y \in GetRandomIntIn2PowerMulRange(PARAM_L + PARAM_E, pub.N),
          e \in FactorChallenge :
       \E smp \in {[a |-> a, b |-> b, mu |-> mu, v |-> v, sigma |-> sigma,
                    r |-> r, x |-> x, y |-> y]} :
       \E c \in {FactorCommit(key, pub.N, pub.s, pub.t, smp)} :
          /\ proof' = FactorProof(key, c, smp, e)
          /\ oracle' = Record(oracle, <<pub.N, pub.s, pub.t, pub.pkN, c>>, e)
          /\ rnd' = [rnd EXCEPT !.tamper = NoTamper] @@ [smp |-> smp, e |-> e]
    /\ pc' = "proved"
    /\ UNCHANGED <<key, pub, res>>

\* A response is shifted by a multiple of the order of the units of N, which
\* leaves the three equalities as they were, or by one.
FactorTamperResponse ==
    /\ pc = "proved"
    /\ LET big == rnd.ringPhiN * ((FactorLimit(pub.pkN) \div rnd.ringPhiN) + 1)
       IN  \/ /\ proof' = [proof EXCEPT !.Z1 = @ + big]
              /\ rnd' = [rnd EXCEPT !.tamper = <<"shiftZ1", 0>>]
           \/ /\ proof' = [proof EXCEPT !.Z2 = @ - big]
              /\ rnd' = [rnd EXCEPT !.tamper = <<"shiftZ2", 0>>]
           \/ /\ proof' = [proof EXCEPT !.W1 = @ + 1]
              /\ rnd' = [rnd EXCEPT !.tamper = <<"addW1", 0>>]
           \/ /\ proof' = [proof EXCEPT !.W2 = @ + 1]
              /\ rnd' = [rnd EXCEPT !.tamper = <<"addW2", 0>>]
           \/ /\ proof' = [proof EXCEPT !.V = @ + 1]
              /\ rnd' = [rnd EXCEPT !.tamper = <<"addV", 0>>]
    /\ pc' = "tampered"
    /\ UNCHANGED <<key, pub, oracle, res>>

\* A field of the proof or an argument of FactorVerify is a nil pointer.
FactorTamperNil ==
    /\ pc = "proved"
    /\ \/ \E f \in FactorFields :
             /\ proof' = [proof EXCEPT !.nil = @ \cup {f}]
             /\ rnd' = [rnd EXCEPT !.tamper = <<"nil" \o f, 0>>]
             /\ pub' = pub
       \/ \E x \in {"pkN", "N", "s", "t"} :
             /\ pub' = [pub EXCEPT !.nil = @ \cup {x}]
             /\ rnd' = [rnd EXCEPT !.tamper = <<"nil" \o x, 0>>]
             /\ proof' = proof
    /\ pc' = "tampered"
    /\ UNCHANGED <<key, oracle, res>>

FactorQuery(pb, pf) ==
    <<pb.N, pb.s, pb.t, pb.pkN,
      [P |-> pf.P, Q |-> pf.Q, A |-> pf.A, B |-> pf.B, T |-> pf.T, Sigma |-> pf.Sigma]>>

\* proof.FactorVerify(pkN, N, s, t): FactorChallenge hashes the public
\* values and the commitments unless a nil was found before.
FactorVerifyStep ==
    /\ pc \in {"proved", "tampered"}
    /\ LET early == pub.nil # {} \/ proof.nil # {}
           q == FactorQuery(pub, proof)
       IN  \E e \in (IF early THEN {0} ELSE Answers(oracle, q, FactorChallenge)) :
              /\ res' = FactorVerify(proof, pub.pkN, pub.N, pub.s, pub.t, pub.nil, e)
              /\ oracle' = IF early THEN oracle ELSE Record(oracle, q, e)
    /\ pc' = "verified"
    /\ UNCHANGED <<key, pub, rnd, proof>>

NextFactor ==
    FactorProofGen \/ FactorTamperResponse \/ FactorTamperNil \/ FactorVerifyStep

SpecFactor == InitFactor /\ [][NextFactor]_vars

(***************************************************************************)
(* Claims about ModProof / ModVerify                                       *)
(***************************************************************************)
Honest == key \in PrivateKeys /\ rnd # None /\ rnd.tamper = NoTamper

Rejected(r) == r.out = "return" /\ ~r.ok /\ r.err[1] # "nil"

\* C1: completeness of ModProof. For every private key with distinct primes
\* congruent to 3 mod 4 and gcd(N, PhiN) = 1, every witness w of Jacobi symbol
\* -1 and every challenge vector, ModVerify(N) returns (true, nil) on the
\* proof ModProof() returned.
C1_ModCompleteness ==
    (pc = "verified" /\ Honest /\ Gcd(key.N, key.PhiN) = 1) => res = Ok

\* An accepted honest proof that used the twist a = b = true at an index
\* whose response z_i differs from the challenge y_i.
C1_Witness ==
    /\ pc = "verified" /\ Honest /\ Gcd(key.N, key.PhiN) = 1
    /\ res = Ok
    /\ \E i \in Idx :
          /\ proof.A[i] /\ proof.B[i]
          /\ proof.X[i] > 1
          /\ proof.Z[i] # rnd.y[i]

\* C2: the forged proof of TestModProofVerify_ForgedProof (N = 17*7, W = 0,
\* every A[i] = B[i] = true, X[i] = 0, Z[i] = y_i^(N^-1 mod phi(N)) mod N) is
\* rejected by ModVerify(N): false with a non-nil error.
C2_ForgedRejected ==
    (pc = "verified" /\ key = ForgerKey) => Rejected(res)

\* C3: decrementing a single response Z[i] of an honest proof (gcd(N, PhiN) = 1)
\* makes ModVerify(N) return false with the error of the z_i^N = y_i check.
C3_TamperDetected ==
    (pc = "verified" /\ key \in PrivateKeys /\ rnd.tamper[1] = "subZ")
        => res = Fail("z", rnd.tamper[2])

\* The last response was 0 and became -1, and verification rejected it.
C3_Witness ==
    /\ pc = "verified" /\ key \in PrivateKeys
    /\ rnd.tamper = <<"subZ", PARAM_M - 1>>
    /\ proof.Z[PARAM_M - 1] = -1
    /\ Rejected(res)

\* What ModVerify's documentation says it accepts, for the modulus N and the
\* challenges y = ModChallenge(N, W).
ModAccepts(pf, N, y) ==
    /\ N % 2 = 1
    /\ ~IsPrime(N)
    /\ \A i \in Idx :
          /\ Exp(pf.Z[i], N, N) = y[i]
          /\ Exp(pf.X[i], 4, N) =
                ((IF pf.A[i] THEN -1 ELSE 1) * (IF pf.B[i] THEN pf.W ELSE 1) * y[i]) % N

C9_NilRejected ==
    (pc = "verified" /\ (proof.nil # {} \/ pub.nil # {})) => Rejected(res)

(***************************************************************************)
(* Claims about ParamProof / ParamVerify                                   *)
(***************************************************************************)
Accepted == [out |-> "return", ok |-> TRUE]

ParamQuery == <<pub.N, pub.s, pub.t, proof.A>>

\* C5: completeness of ParamProof as the test sets it up: for t a square of a
\* unit mod N, lambda below PhiN and s = t^lambda mod N, every choice of the
\* a_i and every challenge, ParamVerify(N, s, t) returns true on the proof
\* ParamProof(s, t, lambda) returned.
C5_ParamCompleteness ==
    (pc = "verified" /\ rnd.mode = "test" /\ rnd.tamper = NoTamper) => res = Accepted

\* An accepted proof of the test's setup with t # 1, a challenge bit set at
\* an index whose response wrapped around phiN.
C5_Witness ==
    /\ pc = "verified" /\ rnd.mode = "test" /\ rnd.tamper = NoTamper
    /\ res = Accepted
    /\ pub.t # 1 /\ pub.s # 1
    /\ \E i \in Idx :
          /\ BytesToBits(oracle[ParamQuery])[i] = 1
          /\ proof.Z[i] < rnd.lambda

\* C6 as stated: when the bases satisfy t = s^lambda mod N, the proof
\* ParamProof(s, t, lambda) generated is accepted by ParamVerify(N, s, t).
C6_SpecRelationAccepted ==
    (pc = "verified" /\ rnd.tamper = NoTamper
        /\ pub.t = Exp(pub.s, rnd.lambda, pub.N)) => res = Accepted

\* C6 as amended: when the bases satisfy s = t^lambda mod N for a unit t, the
\* proof ParamProof(s, t, lambda) generated is accepted by ParamVerify(N, s, t).
C6_ParamRelation ==
    (pc = "verified" /\ rnd.tamper = NoTamper
        /\ Gcd(pub.t, pub.N) = 1
        /\ pub.s = Exp(pub.t, rnd.lambda, pub.N)) => res = Accepted

\* Bases set up as t = s^lambda that also satisfy s = t^lambda, with s # t,
\* and the proof accepted on a set challenge bit.
C6_Witness ==
    /\ pc = "verified" /\ rnd.tamper = NoTamper /\ rnd.mode = "spec"
    /\ pub.s = Exp(pub.t, rnd.lambda, pub.N) /\ pub.s # pub.t
    /\ \E i \in Idx : BytesToBits(oracle[ParamQuery])[i] = 1
    /\ res = Accepted

\* C10: ParamVerify returns false when any A[i] or Z[i] of the proof or any of
\* N, s, t is nil, and returns true only when no component is nil and all
\* PARAM_M equations t^Z[i] = A[i] * s^e_i mod N hold.
C10_ParamVerifyNil ==
    pc = "verified" =>
        /\ res.out = "return"
        /\ (proof.nil # {} \/ pub.nil # {}) => ~res.ok
        /\ res.ok =>
              /\ proof.nil = {} /\ pub.nil = {}
              /\ \A i \in Idx :
                    Exp(pub.t, proof.Z[i], pub.N) =
                       (proof.A[i] * Exp(pub.s, BytesToBits(oracle[ParamQuery])[i], pub.N))
                          % pub.N

\* The last commitment of a proof of the test's setup was set to nil and
\* ParamVerify returned false.
C10_Witness ==
    /\ pc = "verified" /\ rnd.mode = "test"
    /\ rnd.tamper = <<"nilA", PARAM_M - 1>>
    /\ res = [out |-> "return", ok |-> FALSE]

(***************************************************************************)
(* Claims about FactorProof / FactorVerify                                 *)
(***************************************************************************)
\* C7 as stated: for every outcome of the samples and every challenge e, the
\* proof FactorProof(N, s, t) returned makes FactorVerify(N0, N, s, t) return
\* (true, nil), the range checks included.
C7_FactorCompleteness ==
    (pc = "verified" /\ rnd.tamper = NoTamper) => res = Ok

\* C7 as amended: the three equalities hold for the proof FactorProof
\* returned, and FactorVerify returns (true, nil) exactly when
\* |a + e*p| and |b + e*q| are at most 2^(L+E) * floor(sqrt(N0)); otherwise it
\* returns false with the error of a range check.
C7_FactorCompletenessInRange ==
    (pc = "verified" /\ rnd.tamper = NoTamper) =>
        /\ res.out = "return"
        /\ res.err[1] \in {"nil", "range"}
        /\ res = Ok <=>
              /\ Abs(rnd.smp.a + rnd.e * key.p) <= FactorLimit(key.N)
              /\ Abs(rnd.smp.b + rnd.e * key.q) <= FactorLimit(key.N)

\* An accepted proof with a negative challenge and negative responses.
C7_Witness ==
    /\ pc = "verified" /\ rnd.tamper = NoTamper
    /\ res = Ok
    /\ rnd.e < 0 /\ proof.Z1 < 0 /\ proof.V < 0
    /\ pub.s # 1 /\ pub.t # 1

\* What FactorVerify is to accept, e being the challenge of the commitments.
FactorAccepts(pf, pb, e) ==
    /\ (Exp(pb.s, pf.Z1, pb.N) * Exp(pb.t, pf.W1, pb.N)) % pb.N
          = (pf.A * Exp(pf.P, e, pb.N)) % pb.N
    /\ (Exp(pb.s, pf.Z2, pb.N) * Exp(pb.t, pf.W2, pb.N)) % pb.N
          = (pf.B * Exp(pf.Q, e, pb.N)) % pb.N
    /\ (Exp(pf.Q, pf.Z1, pb.N) * Exp(pb.t, pf.V, pb.N)) % pb.N
          = (pf.T * Exp((Exp(pb.s, pb.pkN, pb.N) * Exp(pb.t, pf.Sigma, pb.N)) % pb.N,
                        e, pb.N)) % pb.N
    /\ Abs(pf.Z1) <= Pow2(PARAM_L + PARAM_E) * Sqrt(pb.pkN)
    /\ Abs(pf.Z2) <= Pow2(PARAM_L + PARAM_E) * Sqrt(pb.pkN)

\* C8: for non-nil arguments and a proof with all fields non-nil, FactorVerify
\* returns (true, nil) if and only if the three equalities and both range
\* checks hold, and (false, error) otherwise; a nil argument or nil proof
\* field yields (false, error).
C8_FactorVerifyAccepts ==
    pc = "verified" =>
        /\ res.out = "return"
        /\ res = Ok \/ Rejected(res)
        /\ (proof.nil # {} \/ pub.nil # {}) => Rejected(res)
        /\ (proof.nil = {} /\ pub.nil = {}) =>
              (res = Ok <=> FactorAccepts(proof, pub, oracle[FactorQuery(pub, proof)]))

\* A proof whose three equalities hold and whose Z1 exceeds the limit, rejected
\* by the range check.
C8_Witness ==
    /\ pc = "verified"
    /\ rnd.tamper = <<"shiftZ1", 0>>
    /\ proof.Z1 > FactorLimit(pub.pkN)
    /\ res = Fail("range", 1)

(***************************************************************************)
(* Byte slices: big.Int.Bytes / SetBytes, and the Unmarshal functions      *)
(***************************************************************************)
RECURSIVE SetBytes(_)
\* big.Int.SetBytes(buf): buf read as a big-endian unsigned integer.
SetBytes(buf) ==
    IF buf = <<>> THEN 0
    ELSE SetBytes(SubSeq(buf, 1, Len(buf) - 1)) * 256 + buf[Len(buf)]

RECURSIVE Bytes(_)
\* big.Int.Bytes(): the big-endian bytes of |x|, empty for 0.
Bytes(x) ==
    IF x = 0 THEN <<>>
    ELSE Bytes(Abs(x) \div 256) \o <<Abs(x) % 256>>

\* common.MultiBytesToBigInts(bytes): SetBytes of every entry.
MultiBytesToBigInts(bzs) == [k \in 1 .. Len(bzs) |-> SetBytes(bzs[k])]

\* common.BigIntsToBytes(bigInts): Bytes() of every entry.
BigIntsToBytes(ints) == [k \in 1 .. Len(ints) |-> Bytes(ints[k])]

\* A nil pointer to a proof.
NilProof == [isnil |-> TRUE]

\* The return (nil, fmt.Errorf(...)) of an Unmarshal function.
DecodeError(field) == [out |-> "return", pf |-> NilProof, err |-> field]

\* The return (&proof, nil) of an Unmarshal function.
Decoded(pf) == [out |-> "return", pf |-> pf, err |-> "nil"]

\* The array [PARAM_M] filled from the first PARAM_M entries of a slice.
ToArray(slice) == [i \in Idx |-> slice[i + 1]]

\* UnmarshalModProof without the check of the number of Zs: the copy loop
\* indexes z[i] out of range on fewer entries, and drops the entries beyond
\* PARAM_M.
UnmarshalModProof_NoZCount(ws, xs, as, bs, zs) ==
    IF Len(ws) = 0 THEN DecodeError("W")
    ELSE IF Len(xs) # PARAM_M THEN DecodeError("X")
    ELSE IF Len(as) # PARAM_M THEN DecodeError("A")
    ELSE IF Len(bs) # PARAM_M THEN DecodeError("B")
    ELSE IF Len(zs) < PARAM_M THEN Panic
    ELSE Decoded([W |-> SetBytes(ws),
                  X |-> ToArray(MultiBytesToBigInts(xs)),
                  A |-> ToArray(as),
                  B |-> ToArray(bs),
                  Z |-> ToArray(MultiBytesToBigInts(zs)),
                  nil |-> {}])

\* UnmarshalModProof(ws, xs, as, bs, zs)
UnmarshalModProof(ws, xs, as, bs, zs) ==
    IF Len(ws) = 0 THEN DecodeError("W")
    ELSE IF Len(xs) # PARAM_M THEN DecodeError("X")
    ELSE IF Len(as) # PARAM_M THEN DecodeError("A")
    ELSE IF Len(bs) # PARAM_M THEN DecodeError("B")
    ELSE IF Len(zs) # PARAM_M THEN DecodeError("Z")
    ELSE Decoded([W |-> SetBytes(ws),
                  X |-> ToArray(MultiBytesToBigInts(xs)),
                  A |-> ToArray(as),
                  B |-> ToArray(bs),
                  Z |-> ToArray(MultiBytesToBigInts(zs)),
                  nil |-> {}])

\* UnmarshalParamProof(as, zs)
UnmarshalParamProof(as, zs) ==
    IF Len(as) # PARAM_M THEN DecodeError("A")
    ELSE IF Len(zs) # PARAM_M THEN DecodeError("Z")
    ELSE Decoded([A |-> ToArray(MultiBytesToBigInts(as)),
                  Z |-> ToArray(MultiBytesToBigInts(zs)),
                  nil |-> {}])

(***************************************************************************)
(* Unmarshal: the slices a message may carry, and the calls                *)
(***************************************************************************)
\* The sequences over S of at most PARAM_M + 1 entries.
Slices(S) == UNION { [1 .. n -> S] : n \in 0 .. (PARAM_M + 1) }

\* The byte slices the model puts in a message: empty, one byte, two bytes.
SomeBytes == { <<>>, <<7>>, <<1, 0>> }

InitUnmarshal ==
    /\ pc = "start"
    /\ key = None
    /\ pub = None
    /\ proof = None
    /\ oracle = NoQueries
    /\ res = None
    /\ \/ \E ws \in {<<>>, <<5>>}, xs \in Slices(SomeBytes),
             as \in Slices(BOOLEAN), bs \in Slices({TRUE}), zs \in Slices({<<7>>}) :
             rnd = [fn |-> "UnmarshalModProof",
                    ws |-> ws, xs |-> xs, as |-> as, bs |-> bs, zs |-> zs]
       \/ \E as \in Slices(SomeBytes), zs \in Slices(SomeBytes) :
             rnd = [fn |-> "UnmarshalParamProof", as |-> as, zs |-> zs]

UnmarshalModProofCall ==
    /\ pc = "start"
    /\ rnd.fn = "UnmarshalModProof"
    /\ res' = UnmarshalModProof(rnd.ws, rnd.xs, rnd.as, rnd.bs, rnd.zs)
    /\ pc' = "done"
    /\ UNCHANGED <<key, pub, rnd, proof, oracle>>

UnmarshalParamProofCall ==
    /\ pc = "start"
    /\ rnd.fn = "UnmarshalParamProof"
    /\ res' = UnmarshalParamProof(rnd.as, rnd.zs)
    /\ pc' = "done"
    /\ UNCHANGED <<key, pub, rnd, proof, oracle>>

NextUnmarshal == UnmarshalModProofCall \/ UnmarshalParamProofCall

SpecUnmarshal == InitUnmarshal /\ [][NextUnmarshal]_vars

(***************************************************************************)
(* Claims about the Unmarshal functions                                    *)
(***************************************************************************)
\* The proof Unmarshal returns has every entry of its arrays populated from
\* the entry of the same position of the slice.
Populated(arr, slice) ==
    /\ DOMAIN arr = Idx
    /\ \A i \in Idx : arr[i] = SetBytes(slice[i + 1])

\* C11: UnmarshalModProof returns (nil, error) whenever W is empty or the
\* number of X, A, B or Z entries differs from PARAM_M, UnmarshalParamProof
\* whenever the number of A or Z entries differs from PARAM_M, and nothing
\* panics; when all counts are PARAM_M (and W is non-empty) a proof with every
\* entry populated is returned with a nil error.
C11_UnmarshalCardinality ==
    pc = "done" =>
        /\ res.out = "return"
        /\ rnd.fn = "UnmarshalModProof" =>
              IF Len(rnd.ws) = 0 \/ Len(rnd.xs) # PARAM_M \/ Len(rnd.as) # PARAM_M
                    \/ Len(rnd.bs) # PARAM_M \/ Len(rnd.zs) # PARAM_M
              THEN res.pf = NilProof /\ res.err # "nil"
              ELSE /\ res.err = "nil"
                   /\ res.pf.nil = {}
                   /\ res.pf.W = SetBytes(rnd.ws)
                   /\ Populated(res.pf.X, rnd.xs)
                   /\ Populated(res.pf.Z, rnd.zs)
                   /\ \A i \in Idx : res.pf.A[i] = rnd.as[i + 1]
                                     /\ res.pf.B[i] = rnd.bs[i + 1]
        /\ rnd.fn = "UnmarshalParamProof" =>
              IF Len(rnd.as) # PARAM_M \/ Len(rnd.zs) # PARAM_M
              THEN res.pf = NilProof /\ res.err # "nil"
              ELSE /\ res.err = "nil"
                   /\ res.pf.nil = {}
                   /\ Populated(res.pf.A, rnd.as)
                   /\ Populated(res.pf.Z, rnd.zs)

\* UnmarshalModProof was given one response too many, every other count
\* being right, and returned the error of the Zs.
C11_Witness ==
    /\ pc = "done"
    /\ rnd.fn = "UnmarshalModProof"
    /\ Len(rnd.ws) > 0 /\ Len(rnd.xs) = PARAM_M /\ Len(rnd.as) = PARAM_M
    /\ Len(rnd.bs) = PARAM_M /\ Len(rnd.zs) = PARAM_M + 1
    /\ res = DecodeError("Z")

(***************************************************************************)
(* messages.go: the proofs in the round messages                           *)
(***************************************************************************)
\* arr[:], the slice of an array [PARAM_M].
ToSlice(arr) == [k \in 1 .. PARAM_M |-> arr[k - 1]]

\* common.MarshalSigned(x): a leading sign byte, then the bytes of |x|.
MarshalSigned(x) == <<IF x < 0 THEN 1 ELSE 0>> \o Bytes(x)

\* common.UnmarshalSigned(b): the magnitude after the sign byte, negated
\* when the sign byte is set.
UnmarshalSigned(b) ==
    IF b[1] = 1 THEN 0 - SetBytes(Tail(b)) ELSE SetBytes(Tail(b))

\* NewKGRound1Message: the Modproof field of the content.
NewKGRound1Message(modProof) ==
    [W |-> Bytes(modProof.W),
     X |-> BigIntsToBytes(ToSlice(modProof.X)),
     A |-> ToSlice(modProof.A),
     B |-> ToSlice(modProof.B),
     Z |-> BigIntsToBytes(ToSlice(modProof.Z))]

\* KGRound1Message.UnmarshalModProof()
KGRound1UnmarshalModProof(m) == UnmarshalModProof(m.W, m.X, m.A, m.B, m.Z)

\* NewKGRound2Message1: the Facproof field of the content, nil for a nil proof.
NewKGRound2Message1(pf) ==
    IF pf = NilProof THEN NilProof
    ELSE [f \in FactorFields |-> MarshalSigned(pf[f])]

\* UnmarshalFactorProof reading every field as an unsigned magnitude.
UnmarshalFactorProof_Unsigned(m) ==
    IF m = NilProof THEN Panic
    ELSE Decoded([f \in FactorFields \cup {"nil"} |->
                    IF f = "nil" THEN {} ELSE SetBytes(Tail(m[f]))])

\* KGRound2Message1.UnmarshalFactorProof(): the fields of a nil Facproof are
\* read through a nil pointer.
UnmarshalFactorProof(m) ==
    IF m = NilProof THEN Panic
    ELSE Decoded([f \in FactorFields \cup {"nil"} |->
                    IF f = "nil" THEN {} ELSE UnmarshalSigned(m[f])])

(***************************************************************************)
(* The proofs on the wire: generation, message, decoding                   *)
(***************************************************************************)
InitWire ==
    \/ InitMod /\ key \in PrivateKeys
    \/ InitFactor

WireModProof == pub = None /\ ModProofGen

WireFactorProof == pub # None /\ FactorProofGen

SendModProof ==
    /\ pc = "proved"
    /\ "W" \in DOMAIN proof
    /\ res' = [msg |-> NewKGRound1Message(proof)]
    /\ pc' = "sent"
    /\ UNCHANGED <<key, pub, rnd, proof, oracle>>

SendFactorProof ==
    /\ pc = "proved"
    /\ "Sigma" \in DOMAIN proof
    /\ res' = [msg |-> NewKGRound2Message1(proof)]
    /\ pc' = "sent"
    /\ UNCHANGED <<key, pub, rnd, proof, oracle>>

ReceiveModProof ==
    /\ pc = "sent"
    /\ "W" \in DOMAIN proof
    /\ res' = [msg |-> res.msg, dec |-> KGRound1UnmarshalModProof(res.msg)]
    /\ pc' = "received"
    /\ UNCHANGED <<key, pub, rnd, proof, oracle>>

ReceiveFactorProof ==
    /\ pc = "sent"
    /\ "Sigma" \in DOMAIN proof
    /\ res' = [msg |-> res.msg, dec |-> UnmarshalFactorProof(res.msg)]
    /\ pc' = "received"
    /\ UNCHANGED <<key, pub, rnd, proof, oracle>>

NextWire ==
    \/ WireModProof \/ WireFactorProof
    \/ SendModProof \/ SendFactorProof
    \/ ReceiveModProof \/ ReceiveFactorProof

SpecWire == InitWire /\ [][NextWire]_vars

(***************************************************************************)
(* Claims about the round trip through the messages                        *)
(***************************************************************************)
\* C12: for every proof ModProof() or FactorProof() can return, writing it
\* into the message fields (NewKGRound1Message / NewKGRound2Message1) and
\* decoding them (UnmarshalModProof / UnmarshalFactorProof) yields, without a
\* decode error, a proof equal to it field by field.
C12_RoundTrip ==
    pc = "received" =>
        /\ res.dec.out = "return"
        /\ res.dec.err = "nil"
        /\ res.dec.pf.nil = {}
        /\ \A f \in (DOMAIN proof) \ {"out", "nil"} : res.dec.pf[f] = proof[f]

\* A FactorProof with a negative response and a response of more than one
\* byte came back from its message.
C12_Witness ==
    /\ pc = "received"
    /\ "Sigma" \in DOMAIN proof
    /\ proof.Z1 < 0 /\ proof.W1 < 0
    /\ Abs(proof.V) > 255
    /\ proof.A # 0
    /\ res.dec.pf.Z1 = proof.Z1 /\ res.dec.pf.V = proof.V

(***************************************************************************)
(* The functions on their own: BytesToBits, the CRT roots, DefineXi        *)
(***************************************************************************)
\* BytesToBits is given the integers of up to PARAM_M + ExtraBits bits.
ExtraBits == 3

InitFn ==
    /\ pc = "start"
    /\ key \in PrivateKeys
    /\ pub = None
    /\ rnd = None
    /\ proof = None
    /\ oracle = NoQueries
    /\ res = None

BytesToBitsCall ==
    /\ pc = "start"
    /\ \E b \in 0 .. (Pow2(PARAM_M + ExtraBits) - 1) :
          /\ rnd' = [fn |-> "BytesToBits", b |-> b]
          /\ res' = BytesToBits(b)
    /\ pc' = "done"
    /\ UNCHANGED <<key, pub, proof, oracle>>

CompModSqrtCall ==
    /\ pc = "start"
    /\ \E x \in 0 .. (key.N - 1) :
          /\ rnd' = [fn |-> "CompModSqrt", x |-> x]
          /\ res' = CompModSqrt(x, key.p, key.q, key.N)
    /\ pc' = "done"
    /\ UNCHANGED <<key, pub, proof, oracle>>

CompMod4thRtCall ==
    /\ pc = "start"
    /\ \E x \in 0 .. (key.N - 1) :
          /\ rnd' = [fn |-> "CompMod4thRt", x |-> x]
          /\ res' = CompMod4thRt(x, key.p, key.q, key.N)
    /\ pc' = "done"
    /\ UNCHANGED <<key, pub, proof, oracle>>

DefineXiCall ==
    /\ pc = "start"
    /\ \E w \in { v \in 1 .. (key.N - 1) : Jacobi(v, key.N) = -1 },
          y \in HashToN(key.N) :
          /\ rnd' = [fn |-> "DefineXi", w |-> w, y |-> y]
          /\ res' = DefineXi(w, y, key.p, key.q, key.N)
    /\ pc' = "done"
    /\ UNCHANGED <<key, pub, proof, oracle>>

NextFn == BytesToBitsCall \/ CompModSqrtCall \/ CompMod4thRtCall \/ DefineXiCall

SpecFn == InitFn /\ [][NextFn]_vars

(***************************************************************************)
(* Claims about BytesToBits                                                *)
(***************************************************************************)
RECURSIVE BitsValue(_, _)
\* The integer whose bits, least significant first, are e[0 .. n-1].
BitsValue(e, n) == IF n = 0 THEN 0 ELSE BitsValue(e, n - 1) + e[n - 1] * Pow2(n - 1)

\* C13: BytesToBits(b) returns exactly PARAM_M entries, each 0 or 1, entry i
\* being floor(b / 2^i) mod 2: the entries are the binary digits, least
\* significant first, of b mod 2^PARAM_M, so the bits of b at positions
\* PARAM_M and above do not affect them and a shorter b is padded with zeros.
C13_BytesToBits ==
    (pc = "done" /\ rnd.fn = "BytesToBits") =>
        /\ DOMAIN res = 0 .. (PARAM_M - 1)
        /\ \A i \in DOMAIN res : res[i] \in {0, 1}
        /\ \A i \in DOMAIN res : res[i] = (rnd.b \div Pow2(i)) % 2
        /\ BitsValue(res, PARAM_M) = rnd.b % Pow2(PARAM_M)

\* An integer with bits set at position PARAM_M and above, whose entry 0 is 1
\* and whose last entry is 0.
C13_Witness ==
    /\ pc = "done" /\ rnd.fn = "BytesToBits"
    /\ rnd.b >= Pow2(PARAM_M + 1)
    /\ res[0] = 1 /\ res[PARAM_M - 1] = 0

(***************************************************************************)
(* Claims about the roots                                                  *)
(***************************************************************************)
\* x is a square modulo m.
IsSquareMod(x, m) == \E r \in 0 .. (m - 1) : (r * r) % m = x % m

\* x is a fourth power modulo m.
IsFourthPowerMod(x, m) == \E r \in 0 .. (m - 1) : (r * r * r * r) % m = x % m

\* (-1)^a * w^b * y mod N
Twisted(a, b, w, y, N) ==
    ((IF a THEN N - 1 ELSE 1) * (IF b THEN w % N ELSE 1) * (y % N)) % N

\* The position of (a, b) in the order (0,0), (0,1), (1,0), (1,1).
Rank(a, b) == (IF a THEN 2 ELSE 0) + (IF b THEN 1 ELSE 0)

\* C15: for every Blum integer N = p*q, every w in [1, N) with Jacobi symbol
\* -1 and every y in [0, N), DefineXi(w, y, p, q, N) does not panic and
\* returns (a, b, x) with x^4 = (-1)^a * w^b * y mod N, (a, b) being the first
\* pair in the order (0,0), (0,1), (1,0), (1,1) whose value has a fourth root
\* and x the first root CompMod4thRt lists for it.
C15_DefineXiFindsRoot ==
    (pc = "done" /\ rnd.fn = "DefineXi") =>
        /\ res.out = "return"
        /\ res.x \in 0 .. (key.N - 1)
        /\ (res.x * res.x * res.x * res.x) % key.N
              = Twisted(res.a, res.b, rnd.w, rnd.y, key.N)
        /\ \A a \in BOOLEAN, b \in BOOLEAN :
              Rank(a, b) < Rank(res.a, res.b)
                 => ~IsFourthPowerMod(Twisted(a, b, rnd.w, rnd.y, key.N), key.N)
        /\ res.x = CompMod4thRt(Twisted(res.a, res.b, rnd.w, rnd.y, key.N),
                                key.p, key.q, key.N)[1]

\* DefineXi was given a y that is a non-zero multiple of a prime of N and
\* had to negate it to find a root.
C15_Witness ==
    /\ pc = "done" /\ rnd.fn = "DefineXi"
    /\ rnd.y # 0 /\ Gcd(rnd.y, key.N) # 1
    /\ res.out = "return" /\ res.a /\ ~res.b
    /\ res.x # 0

\* C16: for distinct primes p, q congruent to 3 mod 4, n = p*q and every x in
\* [0, n), every value CompModSqrt(x, p, q, n) returns lies in [0, n) and
\* squares to x mod n, the list is empty exactly when x is not a square mod p
\* or not a square mod q (non-empty for 58, empty for 59, 37 among the roots
\* of 60 for p = 7, q = 11), and every value CompMod4thRt returns has x as
\* its fourth power mod n.
C16_CrtRoots ==
    /\ (pc = "done" /\ rnd.fn = "CompModSqrt") =>
          /\ \A k \in DOMAIN res :
                res[k] \in 0 .. (key.N - 1) /\ (res[k] * res[k]) % key.N = rnd.x
          /\ res = <<>> <=> (~IsSquareMod(rnd.x, key.p) \/ ~IsSquareMod(rnd.x, key.q))
          /\ (key.p = 7 /\ key.q = 11) =>
                /\ rnd.x = 58 => res # <<>>
                /\ rnd.x = 59 => res = <<>>
                /\ rnd.x = 60 => \E k \in DOMAIN res : res[k] = 37
    /\ (pc = "done" /\ rnd.fn = "CompMod4thRt") =>
          \A k \in DOMAIN res :
             /\ res[k] \in 0 .. (key.N - 1)
             /\ (res[k] * res[k] * res[k] * res[k]) % key.N = rnd.x

\* The four square roots of 60 modulo 7 * 11, 37 among them.
C16_Witness ==
    /\ pc = "done" /\ rnd.fn = "CompModSqrt"
    /\ key.p = 7 /\ key.q = 11 /\ rnd.x = 60
    /\ Len(res) = 4
    /\ \E k \in DOMAIN res : res[k] = 37
    /\ \A j, k \in DOMAIN res : j # k => res[j] # res[k]

(***************************************************************************)
(* Claims about the responses of ModProof                                  *)
(***************************************************************************)
\* C14 as stated: for every Blum integer N = p*q, N is invertible modulo
\* phi(N), so ModProof() never fails on a missing inverse and its z_i satisfy
\* z_i^N = y_i mod N.
C14_BlumInvertible ==
    (key \in PrivateKeys /\ pc \in {"proved", "panic"}) =>
        /\ \E d \in 1 .. key.PhiN : (d * key.N) % key.PhiN = 1
        /\ pc = "proved"
        /\ \A i \in Idx : Exp(proof.Z[i], key.N, key.N) = rnd.y[i]

\* C14 as amended: for a Blum integer N = p*q, N is invertible modulo phi(N)
\* exactly when gcd(N, phi(N)) = 1; then ModProof() returns and its z_i
\* satisfy z_i^N = y_i mod N, and otherwise (p divides q - 1, as for 3 * 7)
\* ModInverse returns nil and ModProof() panics on it.
C14_InvertibleIffCoprime ==
    (key \in PrivateKeys /\ pc \in {"proved", "panic"}) =>
        /\ (\E d \in 1 .. key.PhiN : (d * key.N) % key.PhiN = 1)
              <=> Gcd(key.N, key.PhiN) = 1
        /\ pc = "proved" <=> Gcd(key.N, key.PhiN) = 1
        /\ pc = "proved" =>
              \A i \in Idx :
                 /\ proof.Z[i] \in 0 .. (key.N - 1)
                 /\ Exp(proof.Z[i], key.N, key.N) = rnd.y[i]

\* A proof for 7 * 11 whose response at the free index is another value than
\* its challenge and is not 0 or 1.
C14_Witness ==
    /\ pc = "proved" /\ key \in PrivateKeys /\ key.N = 77
    /\ \E i \in Idx :
          /\ proof.Z[i] # rnd.y[i]
          /\ proof.Z[i] > 1
          /\ Exp(proof.Z[i], key.N, key.N) = rnd.y[i]

(***************************************************************************)
(* round1.Start: the round and its two key generation goroutines           *)
(*                                                                         *)
(* pc holds the position of Start and of the two goroutines; paiCh and     *)
(* rsaCh are unbuffered, so a send and its receive are one step.  key      *)
(* holds the locals rsaSK and paiSK, pub the round's started flag, rnd     *)
(* round.temp.ui and res what Start returned.                              *)
(***************************************************************************)
\* random.GetRandomPositiveInt(tss.EC().Params().N) draws ui below MaxUi.
MaxUi == 3

NilKey == [isnil |-> TRUE]

\* round.WrapError(err, Pi)
WrapError(msg) == [out |-> "return", err |-> msg]

InitStart ==
    /\ pc = [Start |-> "begin", paillier |-> "unborn", rsa |-> "unborn"]
    /\ key = [rsaSK |-> None, paiSK |-> None]
    /\ pub \in { [started |-> b] : b \in BOOLEAN }
    /\ rnd = [ui |-> 0]
    /\ proof = None
    /\ oracle = NoQueries
    /\ res = None

\* Lines 369-401: the started check, then the channels and the go statements.
StartBegin ==
    /\ pc.Start = "begin"
    /\ IF pub.started
       THEN /\ res' = WrapError("round already started")
            /\ pc' = [pc EXCEPT !.Start = "returned"]
            /\ pub' = pub
       ELSE /\ pub' = [pub EXCEPT !.started = TRUE]
            /\ pc' = [Start |-> "ui", paillier |-> "generate", rsa |-> "generate"]
            /\ res' = res
    /\ UNCHANGED <<key, rnd, proof, oracle>>

\* Lines 385-387: paillier.GenerateKeyPair returns a private key.
PaillierGenerate ==
    /\ pc.paillier = "generate"
    /\ \E sk \in PrivateKeys : proof' = [PiPaillierSk |-> sk]
    /\ pc' = [pc EXCEPT !.paillier = "send"]
    /\ UNCHANGED <<key, pub, rnd, oracle, res>>

\* Lines 393-399: rsa.GenerateMultiPrimeKey returns a key, or nil and an
\* error; on the error the goroutine goes on to send nil.
RsaGenerate ==
    /\ pc.rsa = "generate"
    /\ \E err \in BOOLEAN :
          pc' = [pc EXCEPT !.rsa = IF err THEN "send nil" ELSE "send pk"]
    /\ UNCHANGED <<key, pub, rnd, proof, oracle, res>>

\* Lines 404-405
StartUi ==
    /\ pc.Start = "ui"
    /\ \E ui \in 1 .. MaxUi : rnd' = [rnd EXCEPT !.ui = ui]
    /\ pc' = [pc EXCEPT !.Start = "receive rsa"]
    /\ UNCHANGED <<key, pub, proof, oracle, res>>

\* Line 408, <-rsaCh with line 397, ch <- nil: the goroutine goes on to
\* line 400 after its send.
ReceiveRsaNil ==
    /\ pc.Start = "receive rsa"
    /\ pc.rsa = "send nil"
    /\ key' = [key EXCEPT !.rsaSK = NilKey]
    /\ pc' = [pc EXCEPT !.Start = "receive paillier", !.rsa = "send pk"]
    /\ UNCHANGED <<pub, rnd, proof, oracle, res>>

\* Line 408, <-rsaCh with line 400, ch <- pk: the goroutine ends.
ReceiveRsaPk ==
    /\ pc.Start = "receive rsa"
    /\ pc.rsa = "send pk"
    /\ key' = [key EXCEPT !.rsaSK = [Primes |-> <<7, 11>>]]
    /\ pc' = [pc EXCEPT !.Start = "receive paillier", !.rsa = "done"]
    /\ UNCHANGED <<pub, rnd, proof, oracle, res>>

\* Line 408, <-paiCh with line 388, ch <- PiPaillierSk: the goroutine ends.
ReceivePaillier ==
    /\ pc.Start = "receive paillier"
    /\ pc.paillier = "send"
    /\ key' = [key EXCEPT !.paiSK = proof.PiPaillierSk]
    /\ pc' = [pc EXCEPT !.Start = "vss", !.paillier = "done"]
    /\ UNCHANGED <<pub, rnd, proof, oracle, res>>

\* Lines 411-425: vss.Create and crypto.FlattenECPoints may return an error.
StartShares ==
    /\ pc.Start = "vss"
    /\ \E err \in {"nil", "vss.Create", "FlattenECPoints"} :
          IF err = "nil"
          THEN /\ pc' = [pc EXCEPT !.Start = "check rsa"]
               /\ res' = res
          ELSE /\ pc' = [pc EXCEPT !.Start = "returned"]
               /\ res' = WrapError(err)
    /\ UNCHANGED <<key, pub, rnd, proof, oracle>>

\* Lines 428-435: the nil check of rsaSK, then crypto.GenerateNTildei.
StartCheckRsa ==
    /\ pc.Start = "check rsa"
    /\ IF key.rsaSK = NilKey
       THEN /\ pc' = [pc EXCEPT !.Start = "returned"]
            /\ res' = WrapError("RSA generation failed")
       ELSE \E err \in {"nil", "GenerateNTildei"} :
               IF err = "nil"
               THEN /\ pc' = [pc EXCEPT !.Start = "broadcast"]
                    /\ res' = res
               ELSE /\ pc' = [pc EXCEPT !.Start = "returned"]
                    /\ res' = WrapError(err)
    /\ UNCHANGED <<key, pub, rnd, proof, oracle>>

\* Lines 436-459: the saves, round.out <- msg and return nil.
StartBroadcast ==
    /\ pc.Start = "broadcast"
    /\ pc' = [pc EXCEPT !.Start = "returned"]
    /\ res' = WrapError("nil")
    /\ UNCHANGED <<key, pub, rnd, proof, oracle>>

NextStart ==
    \/ StartBegin \/ PaillierGenerate \/ RsaGenerate \/ StartUi
    \/ ReceiveRsaNil \/ ReceiveRsaPk \/ ReceivePaillier
    \/ StartShares \/ StartCheckRsa \/ StartBroadcast

\* The Go scheduler runs every goroutine that can take a step.
SpecStart == InitStart /\ [][NextStart]_vars /\ WF_vars(NextStart)

(***************************************************************************)
(* Claims about round1.Start                                               *)
(***************************************************************************)
\* C17: in round1.Start, after the receive from rsaCh and the receive from
\* paiCh, both helper goroutines finish on every execution path, the path
\* where RSA key generation returns an error included: no goroutine remains
\* blocked forever on a channel send.
C17_GoroutinesTerminate ==
    (pc.Start = "vss") ~> (pc.paillier = "done" /\ pc.rsa = "done")

====
